---------------------------- MODULE Spec2Model ----------------------------
(***************************************************************************)
(* A model of pto.cpp, the schema-driven binary codec of win32lualib.      *)
(*                                                                         *)
(* The program state is the Context (the table ptos_ of Protocol           *)
(* pointers), the heap of Protocol and Field objects it allocates, and the *)
(* outcome of the last call of the Lua API (Import, Encode, Decode and the *)
(* __gc finalizer Release).  Encoder and Decoder live for one call; they   *)
(* are modelled by operators that thread the object (ptr_, offset_,        *)
(* size_) through the code's recursive walk of the schema.                 *)
(*                                                                         *)
(* Representation.  TLC's integers are 32 bits wide, the program's are 64: *)
(* a lua_Integer, int64_t or uint64_t is its eight bytes in memory, least  *)
(* significant first (the code itself memcpy's them on a little-endian     *)
(* host).  A Lua string is the sequence of its bytes.  A Lua table is its  *)
(* array part (arr) and its string-keyed part (hash).  Field and protocol  *)
(* names are TLA+ strings.                                                 *)
(***************************************************************************)
EXTENDS Integers, Sequences, FiniteSets, TLC

VARIABLES
    ptos_,      \* Context::ptos_: the non-NULL slots of the 0xffff-slot table
    past_,      \* the word just past the table, ptos_[0xffff]
    heap,       \* every object new'ed so far: address -> kind and delete count
    brk,        \* the next fresh address
    released,   \* the finalizer (~Context) has run
    crashed,    \* the process was aborted by an out-of-bounds write
    imp,        \* the last Import call and its outcome
    enc,        \* the last Encode call and its outcome
    dec,        \* the last Decode call and its outcome
    vint        \* the varint primitives applied to one integer

vars == <<ptos_, past_, heap, brk, released, crashed, imp, enc, dec, vint>>

-----------------------------------------------------------------------------
(* Program constants *)

\* One more than MAX_DEPTH: not the code's.
MAX_DEPTH_Raised == 128 + 1

MAX_DEPTH == 128
BUFFER_SIZE == 128
TableSize == 65535

\* enum eTYPE
Bool == 0
Short == 1
Int_ == 2    \* eTYPE::Int (Int is the set of integers in TLA+)
Float == 3
Double == 4
String == 5
Pto == 6

-----------------------------------------------------------------------------
(* 64-bit integers as eight little-endian bytes *)

Zero64 == <<0, 0, 0, 0, 0, 0, 0, 0>>

\* #define MAX_INT 0xffffffffffffff
MAX_INT == <<255, 255, 255, 255, 255, 255, 255, 0>>

\* The constants of the length ladder of Encoder::Append(int64_t).
Lim(n) == [i \in 1..8 |-> IF i <= n THEN 255 ELSE 0]

Tup8(f) == <<f[1], f[2], f[3], f[4], f[5], f[6], f[7], f[8]>>

\* A non-negative number below 2^31 as a uint64_t.
U64(n) == <<n % 256, (n \div 256) % 256, (n \div 65536) % 256,
            (n \div 16777216) % 256, 0, 0, 0, 0>>

\* Two's complement negation, wrapping as the machine does.
Neg64(b) ==
    IF b = Zero64 THEN Zero64
    ELSE LET k == CHOOSE i \in 1..8 : b[i] # 0 /\ \A j \in 1..(i - 1) : b[j] = 0
         IN  Tup8([i \in 1..8 |-> IF i < k THEN 0
                                  ELSE IF i = k THEN 256 - b[i]
                                  ELSE 255 - b[i]])

\* A number of magnitude below 2^31 as an int64_t.
I64(n) == IF n >= 0 THEN U64(n) ELSE Neg64(U64(-n))

IsNeg64(b) == b[8] >= 128

\* Unsigned a < b and a <= b.
ULt(a, b) == \E i \in 1..8 : a[i] < b[i] /\ \A j \in (i + 1)..8 : a[j] = b[j]
ULe(a, b) == a = b \/ ULt(a, b)

\* Signed a < b.
SLt(a, b) == IF IsNeg64(a) # IsNeg64(b) THEN IsNeg64(a) ELSE ULt(a, b)

\* The int in the first four bytes of b
I32(b) ==
    LET low == b[1] + 256 * b[2] + 65536 * b[3] + 16777216 * (b[4] % 128)
    IN  IF b[4] >= 128 THEN low - 2147483647 - 1 ELSE low

\* uint16_t, as Append<uint16_t> lays it out.
U16LE(n) == <<n % 256, (n \div 256) % 256>>

\* The int16_t behind two bytes.
I16Val(b) == LET u == b[1] + 256 * b[2] IN IF u >= 32768 THEN u - 65536 ELSE u

\* (short)v: the low two bytes of the lua_Integer.
ShortOf(v) == <<v[1], v[2]>>

\* short -> lua_Integer: sign extension.
WidenShort(b) == LET x == IF b[2] >= 128 THEN 255 ELSE 0
                 IN  <<b[1], b[2], x, x, x, x, x, x>>

\* Decimal text of a uint64_t (fmt's "{}"), by long division by ten.
DivTen(b) ==
    LET r8 == 0
        q8 == (r8 * 256 + b[8]) \div 10   r7 == (r8 * 256 + b[8]) % 10
        q7 == (r7 * 256 + b[7]) \div 10   r6 == (r7 * 256 + b[7]) % 10
        q6 == (r6 * 256 + b[6]) \div 10   r5 == (r6 * 256 + b[6]) % 10
        q5 == (r5 * 256 + b[5]) \div 10   r4 == (r5 * 256 + b[5]) % 10
        q4 == (r4 * 256 + b[4]) \div 10   r3 == (r4 * 256 + b[4]) % 10
        q3 == (r3 * 256 + b[3]) \div 10   r2 == (r3 * 256 + b[3]) % 10
        q2 == (r2 * 256 + b[2]) \div 10   r1 == (r2 * 256 + b[2]) % 10
        q1 == (r1 * 256 + b[1]) \div 10   r0 == (r1 * 256 + b[1]) % 10
    IN  [q |-> <<q1, q2, q3, q4, q5, q6, q7, q8>>, r |-> r0]

Digit(n) == <<"0", "1", "2", "3", "4", "5", "6", "7", "8", "9">>[n + 1]

RECURSIVE UDec(_)
UDec(b) == LET d == DivTen(b)
           IN  IF d.q = Zero64 THEN Digit(d.r) ELSE UDec(d.q) \o Digit(d.r)

\* Decimal text of an int64_t.
Dec64(b) == IF IsNeg64(b) THEN "-" \o UDec(Neg64(b)) ELSE UDec(b)

-----------------------------------------------------------------------------
(* IEEE 754: a double is its eight bytes, a float its four, least          *)
(* significant first.  The conversions are the machine's: int64 to double  *)
(* and double to float round to nearest, ties to even; float to double is  *)
(* exact.                                                                  *)

\* b << k and b >> k of a uint64_t, 0 <= k <= 63
ShL64(b, k) ==
    LET q == k \div 8
        r == k % 8
        at(i) == IF i \in 1..8 THEN b[i] ELSE 0
    IN  Tup8([i \in 1..8 |->
            ((at(i - q) * 2^r) % 256) + (at(i - q - 1) \div 2^(8 - r))])

ShR64(b, k) ==
    LET q == k \div 8
        r == k % 8
        at(i) == IF i \in 1..8 THEN b[i] ELSE 0
    IN  Tup8([i \in 1..8 |->
            (at(i + q) \div 2^r) + ((at(i + q + 1) * 2^(8 - r)) % 256)])

\* b + 1, wrapping
Inc64(b) ==
    Tup8([i \in 1..8 |-> IF \A j \in 1..(i - 1) : b[j] = 255
                         THEN (b[i] + 1) % 256 ELSE b[i]])

\* The position of the highest set bit of a non-zero uint64_t, from 0
TopBit(b) ==
    LET top == CHOOSE i \in 1..8 : b[i] # 0 /\ \A j \in (i + 1)..8 : b[j] = 0
        len == CHOOSE n \in 1..8 : b[top] \div 2^(n - 1) = 1
    IN  8 * (top - 1) + len - 1

\* The double of sign, biased exponent and 52-bit fraction
MkDouble(sign, exp, frac) ==
    <<frac[1], frac[2], frac[3], frac[4], frac[5], frac[6],
      (exp % 16) * 16 + (frac[7] % 16), sign * 128 + (exp \div 16)>>

DSign(d) == d[8] \div 128
DExp(d) == (d[8] % 128) * 16 + (d[7] \div 16)
DFrac(d) == <<d[1], d[2], d[3], d[4], d[5], d[6], d[7] % 16, 0>>

\* (double)i of an int64_t
IntToDouble(i) ==
    LET sign == IF IsNeg64(i) THEN 1 ELSE 0
        mag == IF IsNeg64(i) THEN Neg64(i) ELSE i
        p == TopBit(mag)
        k == p - 52
        q == ShR64(mag, k)
        lost == ShL64(mag, 64 - k)
        half == <<0, 0, 0, 0, 0, 0, 0, 128>>
        up == ULt(half, lost) \/ (lost = half /\ q[1] % 2 = 1)
        r == IF up THEN Inc64(q) ELSE q
    IN  IF mag = Zero64 THEN Zero64
        ELSE IF p <= 52 THEN MkDouble(sign, p + 1023, ShL64(mag, 52 - p))
        ELSE IF r[7] >= 32 THEN MkDouble(sign, p + 1024, Zero64)
        ELSE MkDouble(sign, p + 1023, r)

\* lua_tointeger of a float: the integer it equals, 0 when there is none
DoubleToInt(d) ==
    LET e == DExp(d) - 1023
        sig == Tup8([i \in 1..8 |-> IF i = 7 THEN DFrac(d)[7] + 16
                                     ELSE DFrac(d)[i]])
        mag == IF e >= 52 THEN ShL64(sig, e - 52) ELSE ShR64(sig, 52 - e)
    IN  IF DExp(d) = 0 \/ e < 0 THEN Zero64
        ELSE IF e = 63 /\ DSign(d) = 1 /\ DFrac(d) = Zero64
        THEN <<0, 0, 0, 0, 0, 0, 0, 128>>
        ELSE IF e > 62 THEN Zero64
        ELSE IF e < 52 /\ ShL64(mag, 52 - e) # sig THEN Zero64
        ELSE IF DSign(d) = 1 THEN Neg64(mag) ELSE mag

\* The four bytes of sign and the 31 bits of exponent and fraction
MkFloat(sign, bits) ==
    <<bits % 256, (bits \div 256) % 256, (bits \div 65536) % 256,
      (bits \div 16777216) + sign * 128>>

\* (float)d of a double
DoubleToFloat(d) ==
    LET hi == (d[7] % 16) * 524288 + d[6] * 2048 + d[5] * 8 + (d[4] \div 32)
        lo == (d[4] % 32) * 16777216 + d[3] * 65536 + d[2] * 256 + d[1]
        e == DExp(d) - 896
        inf == 255 * 8388608
        up == lo > 268435456 \/ (lo = 268435456 /\ hi % 2 = 1)
        sig == 8388608 + hi
        shift == 1 - e
        q == sig \div 2^shift
        rm == sig % 2^shift
        half == 2^(shift - 1)
        upsub == rm > half \/ (rm = half /\ (lo # 0 \/ q % 2 = 1))
    IN  IF DExp(d) = 2047
        THEN MkFloat(DSign(d), IF hi = 0 /\ lo = 0 THEN inf
                               ELSE inf + 4194304 + (hi % 4194304))
        ELSE IF e >= 255 THEN MkFloat(DSign(d), inf)
        ELSE IF e >= 1
        THEN MkFloat(DSign(d), e * 8388608 + hi + (IF up THEN 1 ELSE 0))
        ELSE IF shift > 25 THEN MkFloat(DSign(d), 0)
        ELSE MkFloat(DSign(d), q + (IF upsub THEN 1 ELSE 0))

\* (double)f of a float
FloatToDouble(f) ==
    LET sign == f[4] \div 128
        e == (f[4] % 128) * 2 + (f[3] \div 128)
        m == (f[3] % 128) * 65536 + f[2] * 256 + f[1]
        p == CHOOSE n \in 0..22 : m \div 2^n = 1
        hi == IF e = 0 THEN (m * 2^(23 - p)) % 8388608 ELSE m
        exp == IF e = 255 THEN 2047
               ELSE IF e = 0 THEN p + 874
               ELSE e + 896
    IN  IF e = 0 /\ m = 0 THEN <<0, 0, 0, 0, 0, 0, 0, sign * 128>>
        ELSE <<0, 0, 0, (hi % 8) * 32, (hi \div 8) % 256,
               (hi \div 2048) % 256, (exp % 16) * 16 + (hi \div 524288),
               sign * 128 + (exp \div 16)>>

-----------------------------------------------------------------------------
(* Lua values (the value tree the codec reads and builds) *)

Nil == [t |-> "nil"]
LBool(b) == [t |-> "boolean", b |-> b]
LInt(i) == [t |-> "number", i |-> i]          \* integer subtype, an int64
LFlt(d) == [t |-> "number", d |-> d]          \* float subtype, an IEEE double
LStr(s) == [t |-> "string", s |-> s]
LTable(arr, hash) == [t |-> "table", arr |-> arr, hash |-> hash]
NewTable == LTable(<<>>, <<>>)                \* lua_createtable

\* lua_typename(L, lua_type(L, index))
TypeName(v) == v.t

\* lua_getfield(L, index, name)
GetField(tbl, name) ==
    IF name \in DOMAIN tbl.hash THEN tbl.hash[name] ELSE Nil

\* lua_setfield(L, index, name)
SetField(tbl, name, v) ==
    [tbl EXCEPT !.hash = (name :> v) @@ tbl.hash]

\* lua_rawlen(L, index): the border of a table, 0 for what has no length
RawLen(tbl) == IF tbl.t = "table" THEN Len(tbl.arr) ELSE 0

\* lua_rawgeti(L, index, i)
RawGetI(tbl, i) == IF i \in 1..RawLen(tbl) THEN tbl.arr[i] ELSE Nil

\* lua_rawseti / lua_seti(L, -2, i), always called with i = #t + 1
SetI(tbl, i, v) == [tbl EXCEPT !.arr = Append(@, v)]

-----------------------------------------------------------------------------
(* Errors: struct BadPto and its subclasses, by class and reason_ *)

NoErr == [type |-> "none", reason |-> ""]

\* The text with a space after the comma: not the code's.
BadArrayTypeSpaced(field, vt) ==
    [type |-> "BadArrayType",
     reason |-> "field:" \o field \o " expect table, not " \o vt]

BadArrayType(field, vt) ==
    [type |-> "BadArrayType",
     reason |-> "field:" \o field \o " expect table,not " \o vt]

BadArraySize(field) ==
    [type |-> "BadArraySize",
     reason |-> "field:" \o field \o " array size more than 0xffff"]

BadField(array, field, expect, vt) ==
    [type |-> "BadField",
     reason |-> IF array
                THEN "field:" \o field \o " array member expect " \o expect
                         \o ",not " \o vt
                ELSE "field:" \o field \o " expect " \o expect \o ",not " \o vt]

BadInt(field, val, array) ==
    [type |-> "BadInt",
     reason |-> IF array
                THEN "field:" \o field \o " array member int out of range,"
                         \o Dec64(val)
                ELSE "field:" \o field \o " int out of range," \o Dec64(val)]

BadString(field, size) ==
    [type |-> "BadString",
     reason |-> "field:" \o field \o " string size more than 0xffff:"
                    \o ToString(size)]

BadType(field, type) ==
    [type |-> "BadType",
     reason |-> "unknown field:" \o field \o ",type:" \o ToString(type)]

BadDecode == [type |-> "BadDecode", reason |-> "invalid message"]

TooDepth(encode) ==
    [type |-> "TooDepth",
     reason |-> IF encode THEN "pto encode too depth"
                ELSE "pto decode too depth"]

-----------------------------------------------------------------------------
(* Schema objects.  A pointer and its pointee are one record: addr is the  *)
(* address new returned, 0 for NULL.                                       *)

NULL == [addr |-> 0, name_ |-> "", fields_ |-> <<>>]

\* Field::Field
NewField(addr, name, array, type) ==
    [addr |-> addr, name_ |-> name, array_ |-> array, type_ |-> type,
     childs_ |-> <<>>]

\* Protocol::Protocol
NewProtocol(addr, name) == [addr |-> addr, name_ |-> name, fields_ |-> <<>>]

\* Field::GetField(index), index counted from 0
FieldGetField(field, index) ==
    IF index > Len(field.childs_) THEN NULL ELSE field.childs_[index + 1]

\* Protocol::GetField(index), index counted from 0
ProtocolGetField(pto, index) == pto.fields_[index + 1]

-----------------------------------------------------------------------------
(* Import.  The schema argument is the Lua sequence of field descriptions, *)
(* each a record [type, array, name, pto].                                 *)
(*                                                                         *)
(* The recursive walks (ImportField, Encoder::EncodePto,                   *)
(* Decoder::DecodePto) are run as machines with the call stack in the      *)
(* state: one step runs the code between two calls or returns of the       *)
(* recursive function, so a call on a schema without nested messages is    *)
(* one step.  A call runs to completion before the next API call starts.   *)

\* (uint16_t)luaL_checkinteger(L, 2)
U16(n) == n % 65536

\* (eTYPE)lua_tointeger(L, -1): the low 32 bits of the integer, as an int
ToType(v) ==
    I32(IF v.t = "number" /\ "i" \in DOMAIN v THEN v.i ELSE Zero64)

\* lua_toboolean(L, -1)
ToBoolean(v) == ~(v.t = "nil" \/ (v.t = "boolean" /\ ~v.b))

\* lua_tostring(L, -1) of the name, which the schemas here always give
ToName(v) == v.s

\* A frame of ImportField: the loop is at element i of the sequence tbl and
\* has pushed fields so far; field is the Field whose childs_ the call one
\* level further in is filling (NULL when there is none).
ImportFrame(tbl, depth) ==
    [tbl |-> tbl, i |-> 1, fields |-> <<>>, depth |-> depth, field |-> NULL]

\* new: the object is at address brk.
New(m, kind) ==
    [m EXCEPT !.heap = (m.brk :> [kind |-> kind, deleted |-> 0]) @@ @,
              !.brk = @ + 1]

\* The loop of ImportField in the top frame, up to the next element of type
\* Pto or the end of the sequence.
RECURSIVE ImportFields(_)
ImportFields(m) ==
    LET n == Len(m.stack)
        f == m.stack[n]
        x == RawGetI(f.tbl, f.i)
        type == ToType(GetField(x, "type"))
        field == NewField(m.brk, ToName(GetField(x, "name")),
                          ToBoolean(GetField(x, "array")), type)
    IN  IF f.i > RawLen(f.tbl) \/ type = Pto THEN m
        ELSE ImportFields([New(m, "Field") EXCEPT
                 !.stack[n].fields = Append(@, field),
                 !.stack[n].i = @ + 1])

\* Context::AddPto: ptos_[id] = pto, whatever id is.  Slot 0xffff is the
\* word past the end of the table.
AddPto(m, id, pto) ==
    IF id < TableSize THEN [m EXCEPT !.ptos_ = (id :> pto) @@ @]
    ELSE [m EXCEPT !.past_ = pto.addr]

\* Run the top frame on; the call is over when the outermost loop has ended
\* (ctx->AddPto(id, pto)).  r is the call after the loop of the top frame.
ImportYield(r) ==
    LET n == Len(r.stack)
        f == r.stack[n]
        pto == [r.pto EXCEPT !.fields_ = f.fields]
    IN  IF n = 1 /\ f.i > RawLen(f.tbl)
        THEN [AddPto(r, r.id, pto) EXCEPT !.pc = "done", !.pto = pto,
                                           !.stack = <<>>]
        ELSE r

ImportRun(m) == ImportYield(ImportFields(m))

\* The element of type Pto the top frame is at: new Field, then
\* ImportField(L, ctx, field->childs_, lua_gettop(L), ++depth).  The
\* caller's loop does not read the element again: its frame drops it.
ImportEnter(m) ==
    LET n == Len(m.stack)
        f == m.stack[n]
        x == RawGetI(f.tbl, f.i)
        field == NewField(m.brk, ToName(GetField(x, "name")),
                          ToBoolean(GetField(x, "array")),
                          ToType(GetField(x, "type")))
        sub == GetField(x, "pto")
        m1 == [New(m, "Field") EXCEPT
                  !.stack[n].field = field, !.stack[n].depth = f.depth + 1,
                  !.stack[n].tbl.arr[f.i] = Nil,
                  !.levels = IF n + 1 > @ THEN n + 1 ELSE @]
    IN  [m1 EXCEPT !.stack =
            Append(@, ImportFrame(IF sub.t = "table" THEN sub ELSE NewTable,
                                  f.depth + 1))]

\* ImportField returns: fields.push_back(field) in the caller.
ImportLeave(m) ==
    LET n == Len(m.stack)
        f == m.stack[n]
        up == m.stack[n - 1]
        field == [up.field EXCEPT !.childs_ = f.fields]
    IN  [m EXCEPT !.stack =
            [SubSeq(@, 1, n - 1) EXCEPT
                ![n - 1].fields = Append(@, field),
                ![n - 1].field = NULL,
                ![n - 1].i = @ + 1]]

\* One step of a running Import call.
ImportNext(m) ==
    LET f == m.stack[Len(m.stack)]
    IN  ImportRun(IF f.i <= RawLen(f.tbl) THEN ImportEnter(m)
                  ELSE ImportLeave(m))

\* luaL_error(L, "id must less than 0xffff")
IdTooLarge == [type |-> "IdTooLarge", reason |-> "id must less than 0xffff"]

\* ImportPto up to its first call of ImportField.  m holds the Context and
\* the heap besides the call.
ImportPto(m, id, name, tbl) ==
    LET pto == NewProtocol(m.brk, name)
    IN  IF U16(id) > 65535
        THEN [m EXCEPT !.pc = "done", !.id = U16(id), !.err = IdTooLarge]
        ELSE ImportRun([New(m, "Protocol") EXCEPT
                 !.pc = "run", !.id = U16(id), !.pto = pto, !.levels = 1,
                 !.stack = <<ImportFrame(tbl, 1)>>])

\* Context::GetPto
GetPto(ptos, id) ==
    IF id >= 65535 THEN NULL
    ELSE IF id \in DOMAIN ptos THEN ptos[id] ELSE NULL

-----------------------------------------------------------------------------
(* struct Encoder.  ptr_ holds the offset_ bytes written so far; size_ is  *)
(* the capacity of the buffer behind it; err is the exception in flight.   *)

NewEncoder ==
    [ptr_ |-> <<>>, offset_ |-> 0, size_ |-> BUFFER_SIZE, err |-> NoErr,
     deep |-> 1]

\* throw
EncThrow(e, err) == [e EXCEPT !.err = err]

\* Encoder::Reserve: the doubling loop
RECURSIVE GrowTo(_, _)
GrowTo(nsize, need) == IF nsize < need THEN GrowTo(nsize * 2, need) ELSE nsize

Reserve(e, sz) ==
    IF e.offset_ + sz <= e.size_ THEN e
    ELSE [e EXCEPT !.size_ = GrowTo(e.size_ * 2, e.offset_ + sz)]

\* Encoder::Append(void* data, int size)
AppendData(e, data) ==
    LET r == Reserve(e, Len(data))
    IN  [r EXCEPT !.ptr_ = @ \o data, !.offset_ = @ + Len(data)]

\* Encoder::Append<uint16_t>(val)
AppendU16(e, val) == AppendData(e, U16LE(val % 65536))

\* Encoder::Append(const char* str, int sz)
AppendStr(e, str) == AppendData(AppendU16(e, Len(str)), str)

\* Encoder::Append<bool>(val)
AppendBool(e, b) == AppendData(e, <<IF b THEN 1 ELSE 0>>)

\* Encoder::Append<short>(val)
AppendShort(e, val) == AppendData(e, ShortOf(val))

\* Encoder::Append(int64_t val): the length ladder
\* The ladder with < in place of <=: not the code's.
VarintLengthStrict(value) ==
    IF ULt(value, Lim(1)) THEN 1
    ELSE IF ULt(value, Lim(2)) THEN 2
    ELSE IF ULt(value, Lim(3)) THEN 3
    ELSE IF ULt(value, Lim(4)) THEN 4
    ELSE IF ULt(value, Lim(5)) THEN 5
    ELSE IF ULt(value, Lim(6)) THEN 6
    ELSE 7

\* The ladder of Encoder::Append(int64_t): length
VarintLength(value) ==
    IF ULe(value, Lim(1)) THEN 1
    ELSE IF ULe(value, Lim(2)) THEN 2
    ELSE IF ULe(value, Lim(3)) THEN 3
    ELSE IF ULe(value, Lim(4)) THEN 4
    ELSE IF ULe(value, Lim(5)) THEN 5
    ELSE IF ULe(value, Lim(6)) THEN 6
    ELSE 7

\* Encoder::Append(int64_t val): the bytes it appends
Varint(val) ==
    IF val = Zero64 THEN <<0>>
    ELSE LET positive == IF IsNeg64(val) THEN 0 ELSE 1
             value == IF IsNeg64(val) THEN Neg64(val) ELSE val
             length == VarintLength(value)
             tag == (length * 2 + positive) % 256
         IN  <<tag>> \o SubSeq(value, 1, length)

AppendInt(e, val) == AppendData(e, Varint(val))

\* Encoder::BeginArray.  v is the value at index.
\* BeginArray without its Append<uint16_t>(size): not the code's.
BeginArrayBare(e, field, v) ==
    IF TypeName(v) # "table" THEN EncThrow(e, BadArrayType(field.name_, TypeName(v)))
    ELSE e

BeginArray(e, field, v) ==
    IF TypeName(v) # "table" THEN EncThrow(e, BadArrayType(field.name_, TypeName(v)))
    ELSE IF RawLen(v) > 65535 THEN EncThrow(e, BadArraySize(field.name_))
    ELSE AppendU16(e, RawLen(v))

\* lua_tointeger(L, index) of a number
ToInteger(v) == IF "i" \in DOMAIN v THEN v.i ELSE DoubleToInt(v.d)

\* lua_tonumber(L, index) of a number
ToNumber(v) == IF "d" \in DOMAIN v THEN v.d ELSE IntToDouble(v.i)

\* The body of the element loop and of the else branch of EncodeBool,
\* EncodeShort, EncodeInt and EncodeString: x is the element (array) or the
\* field's value.
EncodeBoolElem(e, field, x, array) ==
    IF TypeName(x) # "boolean"
    THEN EncThrow(e, BadField(array, field.name_, "bool", TypeName(x)))
    ELSE AppendBool(e, x.b)

EncodeShortElem(e, field, x, array) ==
    IF TypeName(x) # "number"
    THEN EncThrow(e, BadField(array, field.name_, "short", TypeName(x)))
    ELSE AppendShort(e, ToInteger(x))

\* lua_Integer val = lua_tointeger(L, -1) and what follows it
EncodeIntVal(e, field, val, array) ==
    IF SLt(MAX_INT, val) \/ SLt(val, Neg64(MAX_INT))
    THEN EncThrow(e, BadInt(field.name_, val, array))
    ELSE AppendInt(e, val)

EncodeIntElem(e, field, x, array) ==
    IF TypeName(x) # "number"
    THEN EncThrow(e, BadField(array, field.name_, "int", TypeName(x)))
    ELSE EncodeIntVal(e, field, ToInteger(x), array)

EncodeStringElem(e, field, x, array) ==
    IF TypeName(x) # "string"
    THEN EncThrow(e, BadField(array, field.name_, "string", TypeName(x)))
    ELSE IF Len(x.s) > 65535 THEN EncThrow(e, BadString(field.name_, Len(x.s)))
    ELSE AppendStr(e, x.s)

EncodeFloatElem(e, field, x, array) ==
    IF TypeName(x) # "number"
    THEN EncThrow(e, BadField(array, field.name_, "float", TypeName(x)))
    ELSE AppendData(e, DoubleToFloat(ToNumber(x)))

EncodeDoubleElem(e, field, x, array) ==
    IF TypeName(x) # "number"
    THEN EncThrow(e, BadField(array, field.name_, "double", TypeName(x)))
    ELSE AppendData(e, ToNumber(x))

\* The element of a field of a type that does not recurse.
EncodeElem(e, field, x, array) ==
    CASE field.type_ = Bool -> EncodeBoolElem(e, field, x, array)
      [] field.type_ = Short -> EncodeShortElem(e, field, x, array)
      [] field.type_ = Int_ -> EncodeIntElem(e, field, x, array)
      [] field.type_ = Float -> EncodeFloatElem(e, field, x, array)
      [] field.type_ = Double -> EncodeDoubleElem(e, field, x, array)
      [] field.type_ = String -> EncodeStringElem(e, field, x, array)

\* The for loops of the array branches of EncodeBool ... EncodeString, from
\* element i on.
RECURSIVE EncodeArrayFrom(_, _, _, _, _)
EncodeArrayFrom(e, field, v, i, size) ==
    IF i > size \/ e.err # NoErr THEN e
    ELSE EncodeArrayFrom(EncodeElem(e, field, RawGetI(v, i), TRUE), field, v,
                         i + 1, size)

\* The array branch: BeginArray, then the loop.
EncodeArray(e, field, v) ==
    EncodeArrayFrom(BeginArray(e, field, v), field, v, 1, RawLen(v) % 65536)

\* EncodeBool, EncodeShort, EncodeInt, EncodeFloat, EncodeDouble and
\* EncodeString: the array branch or the single element.
EncodePrim(e, field, v) ==
    IF field.array_ THEN EncodeArray(e, field, v)
    ELSE EncodeElem(e, field, v, FALSE)

\* Encoder::EncodeOne for the types that do not recurse; the Pto arm is
\* EncEnterPto below.
EncodeOne(e, field, v) ==
    IF field.type_ \in {Bool, Short, Int_, Float, Double, String}
    THEN EncodePrim(e, field, v)
    ELSE EncThrow(e, BadType(field.name_, field.type_))

\* A frame of the walk: the loop over childs (field->childs_, or
\* pto->fields_ at the top) is at child j of the table tbl; for an array of
\* messages tbl is element i (from 0) of the size elements of arr.
Frame(field, childs, tbl, depth, arr, i, size) ==
    [field |-> field, childs |-> childs, tbl |-> tbl, j |-> 0,
     depth |-> depth, arr |-> arr, i |-> i, size |-> size]

\* The loop over the children of a frame, up to the next child of type Pto.
RECURSIVE EncodeChilds(_, _, _, _)
EncodeChilds(e, childs, tbl, j) ==
    IF e.err # NoErr \/ j >= Len(childs) \/ childs[j + 1].type_ = Pto
    THEN [e |-> e, j |-> j]
    ELSE EncodeChilds(EncodeOne(e, childs[j + 1],
                                GetField(tbl, childs[j + 1].name_)),
                      childs, tbl, j + 1)

\* Run the top frame on, unless an exception is in flight; then the call
\* is over if an exception is in flight (catch BadPto: luaL_error) or the
\* outermost loop has ended (lua_pushlstring(L, encoder.ptr_,
\* encoder.offset_)).  r is what the loop over the children of the top
\* frame came to.
EncYield(m, r) ==
    LET n == Len(m.stack)
        f == m.stack[n]
    IN  IF r.e.err # NoErr
        THEN [m EXCEPT !.pc = "done", !.e = r.e, !.stack = <<>>,
                       !.ok = FALSE, !.err = r.e.err]
        ELSE IF n = 1 /\ r.j >= Len(f.childs)
        THEN [m EXCEPT !.pc = "done", !.e = r.e, !.stack = <<>>,
                       !.ok = TRUE, !.out = SubSeq(r.e.ptr_, 1, r.e.offset_)]
        ELSE [m EXCEPT !.e = r.e, !.stack[n].j = r.j]

EncRun(m) ==
    LET f == m.stack[Len(m.stack)]
    IN  IF m.e.err # NoErr
        THEN [m EXCEPT !.pc = "done", !.stack = <<>>, !.ok = FALSE,
                       !.err = m.e.err]
        ELSE EncYield(m, EncodeChilds(m.e, f.childs, f.tbl, f.j))

\* What the frames of a walk keep.  A frame holds of its field the name
\* and the flags (the children are the frame's childs); once the walk goes
\* down into child j + 1 of the top frame, that frame keeps of the child
\* and of its value only what the code reads again: the child's children
\* if the frame has another element of a sequence to go through, the value
\* if a later child has the same name.
Bare(field) == [field EXCEPT !.childs_ = <<>>]

Descend(f) ==
    [f EXCEPT !.childs[f.j + 1] = IF f.i + 1 < f.size THEN @ ELSE Bare(@)]

Taken(f) ==
    [f EXCEPT !.tbl = IF \E k \in (f.j + 2)..Len(f.childs) :
                           f.childs[k].name_ = f.childs[f.j + 1].name_
                      THEN @ ELSE SetField(@, f.childs[f.j + 1].name_, Nil)]

\* The Encoder at the start of static EncodePto, the Decoder at the start
\* of static DecodePto: the frame of the loop over pto->fields_
TopFrame(pto, tbl) ==
    Frame([pto EXCEPT !.fields_ = <<>>], pto.fields_, tbl, 1, Nil, 0, 0)

\* throw out of the walk
EncRaise(m, err) == [m EXCEPT !.e = EncThrow(m.e, err)]

\* The array branch of Encoder::EncodePto after BeginArray (e1 is the
\* encoder then).
EncEnterArray(m, field, v, depth, e1) ==
    LET n == Len(m.stack)
        size == RawLen(v) % 65536
        x == RawGetI(v, 1)
    IN  IF e1.err # NoErr THEN [m EXCEPT !.e = e1]
        ELSE IF size = 0 THEN [m EXCEPT !.e = e1, !.stack[n].j = @ + 1]
        ELSE IF TypeName(x) # "table"
        THEN [m EXCEPT !.e = EncThrow(e1, BadField(TRUE, field.name_, "table",
                                                   TypeName(x)))]
        ELSE [m EXCEPT !.e = e1,
                 !.stack = Append([@ EXCEPT ![n] = Taken(Descend(@))],
                                  Frame(Bare(field), field.childs_, x, depth,
                                        [v EXCEPT !.arr[1] = Nil], 0, size))]

\* Encoder::EncodePto called for child j of the top frame.
EncEnterPto(m) ==
    LET n == Len(m.stack)
        f == m.stack[n]
        field == f.childs[f.j + 1]
        v == GetField(f.tbl, field.name_)
        depth == f.depth + 1
        e0 == [m.e EXCEPT !.deep = IF depth > @ THEN depth ELSE @]
    IN  IF depth > MAX_DEPTH THEN EncRaise(m, TooDepth(TRUE))
        ELSE IF TypeName(v) # "table"
        THEN EncRaise(m, BadField(FALSE, field.name_, "table", TypeName(v)))
        ELSE IF field.array_
        THEN EncEnterArray(m, field, v, depth, BeginArray(e0, field, v))
        ELSE [m EXCEPT !.e = e0,
                 !.stack = Append([@ EXCEPT ![n] = Taken(Descend(@))],
                                  Frame(Bare(field), field.childs_, v, depth,
                                        Nil, 0, 0))]

\* The loop over the children of the top frame has ended: the next element
\* of the array, or the return of EncodePto to its caller.
EncLeavePto(m) ==
    LET n == Len(m.stack)
        f == m.stack[n]
        x == RawGetI(f.arr, f.i + 2)
    IN  IF f.i + 1 < f.size
        THEN IF TypeName(x) # "table"
             THEN EncRaise(m, BadField(TRUE, f.field.name_, "table", TypeName(x)))
             ELSE [m EXCEPT !.stack[n].tbl = x, !.stack[n].j = 0,
                                   !.stack[n].i = f.i + 1,
                                   !.stack[n].arr.arr[f.i + 2] = Nil]
        ELSE [m EXCEPT !.stack =
                         [SubSeq(@, 1, n - 1) EXCEPT ![n - 1].j = @ + 1]]

\* One step of a running Encode call.
EncNext(m) ==
    LET f == m.stack[Len(m.stack)]
    IN  EncRun(IF f.j < Len(f.childs) THEN EncEnterPto(m) ELSE EncLeavePto(m))

-----------------------------------------------------------------------------
(* struct Decoder.  buf is the memory behind ptr_ (size_ bytes of it are   *)
(* the caller's); log lists the accesses to it, [at, n] for n bytes read   *)
(* at offset at.  short records that some read asked for more bytes than   *)
(* remained, smash how many bytes a read has written past its destination, *)
(* odd that a byte other than 0 and 1 was read as a bool.  val is what the *)
(* last read or decode step returned.                                      *)
(* conv is how the build turns a byte that is neither 0 nor 1 into a bool, *)
(* ub what the bytes written past the accumulator land on: dead stack      *)
(* ("intact") or the Decoder's own size_ ("size_"); that they land on a    *)
(* return address or a canary is the crash the actions add.                *)

NewDecoder(size) ==
    [offset_ |-> 0, size_ |-> size, err |-> NoErr, log |-> <<>>,
     short |-> FALSE, smash |-> 0, odd |-> FALSE, conv |-> "nonzero",
     ub |-> "intact", deep |-> 1, val |-> Nil]

\* throw
DecThrow(d, err) == [d EXCEPT !.err = err]

\* memcpy out of ptr_ + offset_: bytes outside the buffer read as 0.
Fetch(buf, at, n) ==
    [k \in 1..n |-> IF at + k \in 1..Len(buf) THEN buf[at + k] ELSE 0]

\* The guard of Decoder::Read<T>(): sizeof(T) > size_ - offset_, compared
\* as unsigned numbers (a negative difference converts to a huge one).
ReadTGuard(d, n) ==
    LET rem == d.size_ - d.offset_ IN rem >= 0 /\ n > rem

\* The guard of Decoder::Read(uint8_t*, int) and Read(uint16_t*):
\* size_ - offset_ < size, compared as ints.
ReadGuard(d, n) == d.size_ - d.offset_ < n

\* A read of n bytes that passed its guard.
Advance(d, n) ==
    [d EXCEPT !.offset_ = @ + n, !.log = Append(@, [at |-> d.offset_, n |-> n])]

\* A read that needs n bytes is attempted.
Attempt(d, n) == [d EXCEPT !.short = @ \/ n > d.size_ - d.offset_]

\* Decoder::Read<T>() with sizeof(T) = n
ReadT(d, buf, n) ==
    IF ReadTGuard(d, n) THEN DecThrow(Attempt(d, n), BadDecode)
    ELSE [Advance(Attempt(d, n), n) EXCEPT !.val = Fetch(buf, d.offset_, n)]

\* memcpy(val, ptr_ + offset_, size) into the 8-byte accumulator
\* uint64_t value = 0: val is the accumulator afterwards.
Memcpy(d, got, size) ==
    [d EXCEPT !.val = Tup8([k \in 1..8 |-> IF k <= size THEN got[k] ELSE 0]),
              !.smash = IF size > 8 THEN size - 8 ELSE @,
              !.size_ = IF size >= 12 /\ d.ub = "size_"
                        THEN I32(SubSeq(got, 9, 12)) ELSE @]

\* Decoder::Read(uint8_t* val, int size)
ReadInto(d, buf, size) ==
    IF ReadGuard(d, size) THEN DecThrow(Attempt(d, size), BadDecode)
    ELSE Advance(Memcpy(Attempt(d, size), Fetch(buf, d.offset_, size), size),
                 size)

\* Decoder::Read(), the varint, after its tag byte: t is the decoder after
\* Read<uint8_t>(), r after Read((uint8_t*)&value, length).
\* Read() without the negation: not the code's.
VarintSignDropped(r, tag) == r

VarintSign(r, tag) ==
    IF r.err # NoErr \/ tag % 2 = 1 THEN r ELSE [r EXCEPT !.val = Neg64(@)]

VarintPayload(t, buf) ==
    IF t.err # NoErr THEN t
    ELSE IF t.val[1] = 0 THEN [t EXCEPT !.val = Zero64]
    ELSE VarintSign(ReadInto(t, buf, t.val[1] \div 2), t.val[1])

\* Decoder::Read(): the varint
ReadVarint(d, buf) == VarintPayload(ReadT(d, buf, 1), buf)

\* Decoder::Read(uint16_t* size), the length-prefixed string, after its
\* Read<uint16_t>()
StrBody(t, buf, size) ==
    IF ReadGuard(t, size) THEN DecThrow(Attempt(t, size), BadDecode)
    ELSE [Advance(Attempt(t, size), size) EXCEPT
             !.val = SubSeq(buf, t.offset_ + 1, t.offset_ + size)]

StrSize(t, buf) ==
    IF t.err # NoErr THEN t ELSE StrBody(t, buf, t.val[1] + 256 * t.val[2])

\* Decoder::Read(uint16_t* size)
ReadStr(d, buf) == StrSize(ReadT(d, buf, 2), buf)

\* The uint16_t that Read<uint16_t>() returned
U16Of(t) == IF t.err # NoErr THEN t ELSE [t EXCEPT !.val = @[1] + 256 * @[2]]

\* Read<uint16_t>() of an array count
ReadCount(d, buf) == U16Of(ReadT(d, buf, 2))

\* bool val = Read<bool>(); lua_pushboolean(L, val)
BoolOf(byte, conv) ==
    IF byte = 0 THEN FALSE
    ELSE IF byte = 1 THEN TRUE
    ELSE IF conv = "nonzero" THEN TRUE
    ELSE byte % 2 = 1

\* lua_pushboolean, lua_pushinteger, lua_pushnumber, lua_pushlstring of
\* the value read
PushBool(r) ==
    IF r.err # NoErr THEN r
    ELSE [r EXCEPT !.odd = @ \/ r.val[1] > 1,
                   !.val = LBool(BoolOf(@[1], r.conv))]
PushShort(r) == IF r.err # NoErr THEN r ELSE [r EXCEPT !.val = LInt(WidenShort(@))]
PushInt(r) == IF r.err # NoErr THEN r ELSE [r EXCEPT !.val = LInt(@)]
PushFloat(r) == IF r.err # NoErr THEN r ELSE [r EXCEPT !.val = LFlt(FloatToDouble(@))]
PushDouble(r) == IF r.err # NoErr THEN r ELSE [r EXCEPT !.val = LFlt(Tup8(@))]
PushString(r) == IF r.err # NoErr THEN r ELSE [r EXCEPT !.val = LStr(@)]

\* The element read of DecodeBool ... DecodeString: val is the value pushed.
DecodeElem(d, buf, field) ==
    CASE field.type_ = Bool -> PushBool(ReadT(d, buf, 1))
      [] field.type_ = Short -> PushShort(ReadT(d, buf, 2))
      [] field.type_ = Int_ -> PushInt(ReadVarint(d, buf))
      [] field.type_ = Float -> PushFloat(ReadT(d, buf, 4))
      [] field.type_ = Double -> PushDouble(ReadT(d, buf, 8))
      [] field.type_ = String -> PushString(ReadStr(d, buf))

\* The for loop of an array branch from element i on; arr is the table
\* created for the array, r the decoder after the read of element i.
RECURSIVE DecodeArrayFrom(_, _, _, _, _, _), ArrayElem(_, _, _, _, _, _)
DecodeArrayFrom(d, buf, field, arr, i, size) ==
    IF d.err # NoErr THEN d
    ELSE IF i > size THEN [d EXCEPT !.val = arr]
    ELSE ArrayElem(DecodeElem(d, buf, field), buf, field, arr, i, size)

ArrayElem(r, buf, field, arr, i, size) ==
    IF r.err # NoErr THEN r
    ELSE DecodeArrayFrom(r, buf, field, SetI(arr, i, r.val), i + 1, size)

\* The array branch after Read<uint16_t>() of the count
ArrayBody(c, buf, field) ==
    IF c.err # NoErr THEN c
    ELSE DecodeArrayFrom(c, buf, field, NewTable, 1, c.val)

\* lua_setfield(L, index, field->name_) of the value decoded: val is the
\* table at index afterwards.
StoreField(r, field, tbl) ==
    IF r.err # NoErr THEN r
    ELSE [r EXCEPT !.val = SetField(tbl, field.name_, @)]

\* DecodeBool, DecodeShort, DecodeInt, DecodeFloat, DecodeDouble and
\* DecodeString: val is the table at index (tbl) after the call.
DecodePrim(d, buf, field, tbl) ==
    StoreField(IF field.array_
               THEN ArrayBody(ReadCount(d, buf), buf, field)
               ELSE DecodeElem(d, buf, field),
               field, tbl)

\* Decoder::DecodeOne for the types that do not recurse; the Pto arm is
\* DecEnterPto below.
DecodeOne(d, buf, field, tbl) ==
    IF field.type_ \in {Bool, Short, Int_, Float, Double, String}
    THEN DecodePrim(d, buf, field, tbl)
    ELSE DecThrow(d, BadType(field.name_, field.type_))

\* The loop over the children of a frame, up to the next child of type Pto;
\* r is the decoder after DecodeOne of child j.
RECURSIVE DecodeChilds(_, _, _, _, _), ChildDone(_, _, _, _, _)
DecodeChilds(d, buf, childs, tbl, j) ==
    IF j >= Len(childs) \/ childs[j + 1].type_ = Pto
    THEN [d |-> d, tbl |-> tbl, j |-> j]
    ELSE ChildDone(DecodeOne(d, buf, childs[j + 1], tbl), buf, childs, tbl, j)

ChildDone(r, buf, childs, tbl, j) ==
    IF r.err # NoErr THEN [d |-> r, tbl |-> tbl, j |-> j]
    ELSE DecodeChilds(r, buf, childs, r.val, j + 1)

\* luaL_error(L, "decode protocol:%s error", pto->name_)
Trailing(name) ==
    [type |-> "Trailing", reason |-> "decode protocol:" \o name \o " error"]

\* Run the top frame on, unless an exception is in flight; then the call
\* is over if an exception is in flight (catch BadPto: luaL_error) or the
\* outermost loop has ended, where
\* decoder.offset_ != decoder.size_ is the last check.  r is what the loop
\* over the children of the top frame came to.
DecYield(m, r) ==
    LET n == Len(m.stack)
        f == m.stack[n]
    IN  IF r.d.err # NoErr
        THEN [m EXCEPT !.pc = "done", !.d = [r.d EXCEPT !.val = Nil], !.stack = <<>>,
                       !.ok = FALSE, !.err = r.d.err]
        ELSE IF n = 1 /\ r.j >= Len(f.childs)
        THEN IF r.d.offset_ # r.d.size_
             THEN [m EXCEPT !.pc = "done", !.d = [r.d EXCEPT !.val = Nil], !.stack = <<>>,
                            !.ok = FALSE, !.err = Trailing(f.field.name_)]
             ELSE [m EXCEPT !.pc = "done", !.d = [r.d EXCEPT !.val = Nil], !.stack = <<>>,
                            !.ok = TRUE, !.val = r.tbl]
        ELSE [m EXCEPT !.d = [r.d EXCEPT !.val = Nil], !.stack[n].tbl = r.tbl, !.stack[n].j = r.j]

DecRun(m) ==
    LET f == m.stack[Len(m.stack)]
    IN  IF m.d.err # NoErr
        THEN [m EXCEPT !.pc = "done", !.d.val = Nil, !.stack = <<>>,
                       !.ok = FALSE, !.err = m.d.err]
        ELSE DecYield(m, DecodeChilds(m.d, m.buf, f.childs, f.tbl, f.j))

\* throw out of the walk
DecRaise(m, err) == [m EXCEPT !.d = DecThrow(m.d, err)]

\* The array branch of Decoder::DecodePto after Read<uint16_t>() of the
\* count (c is the decoder then).
DecEnterArray(m, field, depth, c) ==
    LET n == Len(m.stack)
    IN  IF c.err # NoErr THEN [m EXCEPT !.d = c]
        ELSE IF c.val = 0
        THEN [m EXCEPT !.d = c,
                 !.stack[n].tbl = SetField(@, field.name_, NewTable),
                 !.stack[n].j = @ + 1]
        ELSE [m EXCEPT !.d = c,
                 !.stack = Append([@ EXCEPT ![n] = Descend(@)],
                                  Frame(Bare(field), field.childs_, NewTable,
                                        depth, NewTable, 0, c.val))]

\* Decoder::DecodePto called for child j of the top frame.
DecEnterPto(m) ==
    LET n == Len(m.stack)
        f == m.stack[n]
        field == f.childs[f.j + 1]
        depth == f.depth + 1
        d0 == [m.d EXCEPT !.deep = IF depth > @ THEN depth ELSE @]
    IN  IF depth > MAX_DEPTH THEN DecRaise(m, TooDepth(FALSE))
        ELSE IF field.array_
        THEN DecEnterArray(m, field, depth, ReadCount(d0, m.buf))
        ELSE [m EXCEPT !.d = d0,
                 !.stack = Append([@ EXCEPT ![n] = Descend(@)],
                                  Frame(Bare(field), field.childs_, NewTable,
                                        depth, Nil, 0, 0))]

\* The loop over the children of the top frame has ended: lua_seti and the
\* next element of the array, or lua_setfield and the return of DecodePto
\* to its caller.
DecLeavePto(m) ==
    LET n == Len(m.stack)
        f == m.stack[n]
        arr == SetI(f.arr, f.i + 1, f.tbl)
        done == IF f.field.array_ THEN arr ELSE f.tbl
    IN  IF f.field.array_ /\ f.i + 1 < f.size
        THEN [m EXCEPT !.stack[n].tbl = NewTable, !.stack[n].j = 0,
                              !.stack[n].i = f.i + 1, !.stack[n].arr = arr]
        ELSE [m EXCEPT !.stack =
                 [SubSeq(@, 1, n - 1) EXCEPT
                     ![n - 1].tbl = SetField(@, f.field.name_, done),
                     ![n - 1].j = @ + 1]]

\* One step of a running Decode call.
DecNext(m) ==
    LET f == m.stack[Len(m.stack)]
    IN  DecRun(IF f.j < Len(f.childs) THEN DecEnterPto(m) ELSE DecLeavePto(m))

-----------------------------------------------------------------------------
(* The Lua API: Create, Import, Encode, Decode and the finalizer Release   *)

ImportIdle ==
    [pc |-> "idle", id |-> 0, pto |-> NULL, stack |-> <<>>, levels |-> 0,
     err |-> NoErr]

EncodeIdle ==
    [pc |-> "idle", id |-> 0, rec |-> Nil, e |-> NewEncoder, stack |-> <<>>,
     ok |-> FALSE, err |-> NoErr, out |-> <<>>]

\* Where the input of a Decode call comes from: kind "any" for an arbitrary
\* buffer, or the record rec and its encoding wire for an input that is the
\* encoding ("wire"), the encoding without its last byte ("cut") or with
\* bytes appended ("more").
Source(kind, rec, wire) == [kind |-> kind, rec |-> rec, wire |-> wire]
NoSource == Source("none", Nil, <<>>)

DecodeIdle ==
    [pc |-> "idle", id |-> 0, buf |-> <<>>, d |-> NewDecoder(0),
     stack |-> <<>>, ok |-> FALSE, err |-> NoErr, val |-> Nil, src |-> NoSource]

\* The integer codec on its own: x is Append(int64_t)'s argument, of sign
\* neg and magnitude mag, bytes what Append wrote, d the decoder after
\* Read() of them and back what Read() returned.
VarintIdle ==
    [pc |-> "idle", neg |-> FALSE, mag |-> Zero64, x |-> Zero64,
     bytes |-> <<>>, d |-> NewDecoder(0), back |-> Zero64]

\* Create: new (userdata) Context(), every slot NULL
Init ==
    /\ ptos_ = <<>>
    /\ past_ = 0
    /\ heap = <<>>
    /\ brk = 1
    /\ released = FALSE
    /\ crashed = FALSE
    /\ imp = ImportIdle
    /\ enc = EncodeIdle
    /\ dec = DecodeIdle
    /\ vint = VarintIdle

\* The API can be called: the context is alive and no call is running.
Ready ==
    /\ ~released /\ ~crashed
    /\ imp.pc # "run" /\ enc.pc # "run" /\ dec.pc # "run"

\* The Lua caller holds no result of an Encode or Decode call.
Quiet == enc.pc = "idle" /\ dec.pc = "idle"

\* luaL_error(L, "no such pto:%d", id)
NoSuchPto(id) == [type |-> "NoSuchPto", reason |-> "no such pto:" \o ToString(id)]

\* luaL_error(L, "decode protocol:%s error,unkown type:%s", ...)
UnknownType(name, vt) ==
    [type |-> "UnknownType",
     reason |-> "decode protocol:" \o name \o " error,unkown type:" \o vt]

\* The call part of an Import machine.
ImportCall(m) ==
    [pc |-> m.pc, id |-> m.id, pto |-> m.pto, stack |-> m.stack,
     levels |-> m.levels, err |-> m.err]

\* An Import machine leaves its state behind.  The store to ptos_[0xffff]
\* is outside the table: the process goes on or is aborted.
ImportSettle(m) ==
    /\ imp' = ImportCall(m)
    /\ ptos_' = m.ptos_
    /\ past_' = m.past_
    /\ heap' = m.heap
    /\ brk' = m.brk
    /\ crashed' \in IF m.past_ # past_ THEN {FALSE, TRUE} ELSE {FALSE}
    /\ enc' = EncodeIdle
    /\ dec' = DecodeIdle
    /\ UNCHANGED <<released, vint>>

\* static int ImportPto(lua_State* L)
Import(id, name, tbl) ==
    /\ Ready /\ Quiet
    /\ ImportSettle(ImportPto(
           ImportIdle @@ [ptos_ |-> ptos_, past_ |-> past_, heap |-> heap,
                          brk |-> brk], id, name, tbl))

ImportStep ==
    /\ imp.pc = "run" /\ ~crashed
    /\ ImportSettle(ImportNext(
           imp @@ [ptos_ |-> ptos_, past_ |-> past_, heap |-> heap,
                   brk |-> brk]))

\* static int EncodePto(lua_State* L)
EncodeCall(id, rec) ==
    LET pto == GetPto(ptos_, U16(id))
        m == [EncodeIdle EXCEPT !.pc = "run", !.id = U16(id)]
    IN  IF pto = NULL
        THEN [m EXCEPT !.pc = "done", !.err = NoSuchPto(U16(id))]
        ELSE EncRun([m EXCEPT !.rec = rec, !.stack =
                 <<TopFrame(pto, rec)>>])

Encode(id, rec) ==
    /\ Ready /\ Quiet
    /\ enc' = EncodeCall(id, rec)
    /\ dec' = DecodeIdle
    /\ UNCHANGED <<ptos_, past_, heap, brk, released, crashed, imp, vint>>

EncodeStep ==
    /\ enc.pc = "run" /\ ~crashed
    /\ enc' = EncNext(enc)
    /\ UNCHANGED <<ptos_, past_, heap, brk, released, crashed, imp, dec, vint>>

Convs == {"nonzero", "lowbit"}
Ubs == {"intact", "size_"}

\* static int DecodePto(lua_State* L); arg is the value at index 3, a string
\* or [t |-> "lightuserdata", s, n] with the size n given at index 4.
DecodeCall(id, arg, src, conv, ub) ==
    LET pto == GetPto(ptos_, U16(id))
        m == [DecodeIdle EXCEPT !.pc = "run", !.id = U16(id), !.src = src]
        size == IF arg.t = "string" THEN Len(arg.s) ELSE arg.n
        d == [NewDecoder(size) EXCEPT !.conv = conv, !.ub = ub]
    IN  IF pto = NULL
        THEN [m EXCEPT !.pc = "done", !.err = NoSuchPto(U16(id))]
        ELSE IF arg.t \notin {"string", "lightuserdata"}
        THEN [m EXCEPT !.pc = "done", !.err = UnknownType(pto.name_, arg.t)]
        ELSE DecRun([m EXCEPT !.buf = arg.s, !.d = d, !.stack =
                 <<TopFrame(pto, NewTable)>>])

\* A Decode machine leaves its state behind.  Bytes written past the
\* accumulator may abort the process.
DecodeSettle(m) ==
    /\ dec' = [m EXCEPT !.d.conv = "nonzero", !.d.ub = "intact"]
    /\ crashed' \in IF m.d.smash > 0 THEN {FALSE, TRUE} ELSE {FALSE}

\* The outcomes of a step of Decode: what the build makes of a bool byte
\* other than 0 and 1 and of bytes written past the accumulator matters
\* only to a step that meets one.
Others(m, Step(_, _)) ==
    IF m.d.odd \/ m.d.smash > 0
    THEN {Step(conv, ub) : conv \in Convs, ub \in Ubs}
    ELSE {m}

Outcomes(Step(_, _)) == Others(Step("nonzero", "intact"), Step)

Decode(id, arg, src) ==
    /\ Ready /\ dec.pc = "idle"
    /\ LET Step(conv, ub) == DecodeCall(id, arg, src, conv, ub)
       IN  \E m \in Outcomes(Step) : DecodeSettle(m)
    /\ enc' = EncodeIdle
    /\ UNCHANGED <<ptos_, past_, heap, brk, released, imp, vint>>

DecodeStep ==
    /\ dec.pc = "run" /\ ~crashed
    /\ LET Step(conv, ub) ==
               DecNext([dec EXCEPT !.d.conv = conv, !.d.ub = ub])
       IN  \E m \in Outcomes(Step) : DecodeSettle(m)
    /\ UNCHANGED <<ptos_, past_, heap, brk, released, imp, enc, vint>>

\* The Lua caller is done with the result of the last Encode or Decode.
Return ==
    /\ Ready /\ ~Quiet
    /\ enc' = EncodeIdle
    /\ dec' = DecodeIdle
    /\ UNCHANGED <<ptos_, past_, heap, brk, released, crashed, imp, vint>>

\* The addresses of the Fields a delete of fields reaches (~Field).
RECURSIVE Owned(_)
Owned(fields) ==
    UNION {{fields[k].addr} \cup Owned(fields[k].childs_) : k \in DOMAIN fields}

\* Context::~Context: delete of every non-NULL slot i < ptos_.size()
Destroy(h, ptos) ==
    [a \in DOMAIN h |->
        [h[a] EXCEPT !.deleted = @ + Cardinality({i \in DOMAIN ptos :
            a = ptos[i].addr \/ a \in Owned(ptos[i].fields_)})]]

\* static int Release(lua_State* L), the __gc metamethod
Release ==
    /\ Ready /\ Quiet
    /\ released' = TRUE
    /\ heap' = Destroy(heap, ptos_)
    /\ UNCHANGED <<ptos_, past_, brk, crashed, imp, enc, dec, vint>>

-----------------------------------------------------------------------------
(* Inputs.  A schema is described by a sequence of [name, type, array,     *)
(* pto]; Schema turns a description into the Lua value Import is given.    *)

D(name, type, array) == [name |-> name, type |-> type, array |-> array, pto |-> <<>>]
M(name, array, pto) == [name |-> name, type |-> Pto, array |-> array, pto |-> pto]

RECURSIVE Schema(_)
Schema(ds) ==
    LTable([k \in DOMAIN ds |->
                LTable(<<>>, [type |-> LInt(I64(ds[k].type)),
                              array |-> LBool(ds[k].array),
                              name |-> LStr(ds[k].name),
                              pto |-> IF ds[k].type = Pto
                                      THEN Schema(ds[k].pto) ELSE Nil])],
           <<>>)

\* The protocols of the examples: P1, P2, P3.
P1 == <<D("a", Bool, FALSE), D("b", Short, FALSE), D("c", Int_, FALSE),
        D("d", String, FALSE)>>
P2 == <<D("xs", Int_, TRUE)>>
P3 == <<M("inner", TRUE, <<D("x", Short, FALSE), D("y", Short, FALSE)>>)>>

\* Protocols with the other shapes: arrays of every type, nested messages,
\* the floating-point types and a type code outside eTYPE.
P4 == <<D("bs", Bool, TRUE), D("ss", String, TRUE)>>
P5 == <<M("m", FALSE, <<D("k", Int_, FALSE),
                         M("n", FALSE, <<D("z", Bool, FALSE)>>)>>),
        D("t", Short, TRUE)>>
P6 == <<D("f", Float, FALSE), D("g", Double, FALSE), D("fs", Float, TRUE),
        D("gs", Double, TRUE)>>
P7 == <<D("u", 7, FALSE)>>

Protocols ==
    <<[name |-> "P1", ds |-> P1], [name |-> "P2", ds |-> P2],
      [name |-> "P3", ds |-> P3], [name |-> "P4", ds |-> P4],
      [name |-> "P5", ds |-> P5], [name |-> "P6", ds |-> P6],
      [name |-> "P7", ds |-> P7]>>

\* The description a registered protocol was imported from.
Described(pto) ==
    Protocols[CHOOSE k \in DOMAIN Protocols : Protocols[k].name = pto.name_]

\* A Lua string of bytes, a Lua record from a TLA+ record, a Lua sequence
\* from a TLA+ sequence, a Lua integer
Str(bytes) == LStr(bytes)
Rec(r) == LTable(<<>>, r)
Arr(s) == LTable(s, <<>>)
N(n) == LInt(I64(n))

\* Bounds of the inputs
MaxArr == 2        \* elements of a generated sequence
MaxBuf == 3        \* bytes of an arbitrary decode input
LongLen == 130     \* bytes of the long string, more than BUFFER_SIZE

\* 2^(8k) as an int64, 1 <= k <= 6
Pow256(k) == Tup8([i \in 1..8 |-> IF i = k + 1 THEN 1 ELSE 0])

\* Integers at the edges of every varint length, of both signs.
IntEdges ==
    LET pos == {Lim(k) : k \in 1..7} \cup {Pow256(k) : k \in 1..6}
                \cup {U64(1), U64(300)}
    IN  {Zero64} \cup pos \cup {Neg64(x) : x \in pos}

ShortEdges == {0, 1, -1, 32767, -32768}

\* 1.5 and 0.1 as doubles
Dbl15 == <<0, 0, 0, 0, 0, 0, 248, 63>>
Dbl01 == <<154, 153, 153, 153, 153, 153, 185, 63>>

LongString == [k \in 1..LongLen |-> 97 + (k % 26)]

SeqsUpTo(S, n) == UNION {[1..k -> S] : k \in 0..n}

\* The values that satisfy a field description, the records that satisfy a
\* sequence of them.  Every value of a type ("all") is tried in one field
\* of the record at a time, the other fields holding one value ("one");
\* the elements of sequences and the fields of nested records take a few
\* ("few").
RECURSIVE Elems(_, _), RecordsFrom(_, _, _, _)
Elems(d, mode) ==
    CASE d.type = Bool -> IF mode = "one" THEN {LBool(TRUE)}
                          ELSE {LBool(TRUE), LBool(FALSE)}
      [] d.type = Short -> IF mode = "one" THEN {N(1)}
                           ELSE IF mode = "few" THEN {N(1), N(-2)}
                           ELSE {N(x) : x \in ShortEdges}
      [] d.type = Int_ -> IF mode = "one" THEN {N(-1)}
                          ELSE IF mode = "few" THEN {N(0), N(-1), N(256)}
                          ELSE {LInt(x) : x \in IntEdges}
      [] d.type = Float -> IF mode = "one" THEN {LFlt(Dbl15)}
                           ELSE {LFlt(Dbl15), N(3)}
      [] d.type = Double -> IF mode = "one" THEN {LFlt(Dbl01)}
                            ELSE {LFlt(Dbl01), N(3)}
      [] d.type = String -> IF mode = "one" THEN {Str(<<104>>)}
                            ELSE IF mode = "few" THEN {Str(<<>>), Str(<<104>>)}
                            ELSE {Str(<<>>), Str(<<104, 105>>), Str(LongString)}
      [] d.type = Pto -> {Rec(h) : h \in RecordsFrom(d.pto, 1, 0,
                                        IF mode = "one" THEN "one" ELSE "few")}
      [] OTHER -> {N(0)}

Values(d, mode) ==
    IF ~d.array THEN Elems(d, mode)
    ELSE IF mode = "one" THEN {Arr(<<x>>) : x \in Elems(d, "one")}
    ELSE {Arr(q) : q \in SeqsUpTo(Elems(d, "few"), MaxArr)}

\* Field full takes every value, the others take those of mode rest.
RecordsFrom(ds, k, full, rest) ==
    IF k > Len(ds) THEN {<<>>}
    ELSE {(ds[k].name :> v) @@ h :
             v \in Values(ds[k], IF k = full THEN "all" ELSE rest),
             h \in RecordsFrom(ds, k + 1, full, rest)}

Records(ds) ==
    {Rec(h) : h \in UNION {RecordsFrom(ds, 1, k, "one") : k \in DOMAIN ds}}

\* Values of the wrong kind for a field, or out of its range.
Wrong(d) ==
    {Nil, LBool(TRUE), N(7), Str(<<104>>), NewTable, Arr(<<Nil>>),
     Arr(<<LBool(TRUE)>>), Arr(<<N(1), Str(<<104>>)>>), Arr(<<NewTable>>),
     N(32768), N(-32769), LFlt(Dbl15),
     LInt(Pow256(7)), LInt(Neg64(Pow256(7))),
     LInt(<<0, 0, 0, 0, 0, 0, 0, 128>>)}

\* The records that differ from rec in one field, at any level.
RECURSIVE Spoiled(_, _)
Spoiled(ds, rec) ==
    UNION {
        {SetField(rec, ds[k].name, w) : w \in Wrong(ds[k])}
        \cup (IF ds[k].type = Pto /\ ~ds[k].array
              THEN {SetField(rec, ds[k].name, x) :
                       x \in Spoiled(ds[k].pto, GetField(rec, ds[k].name))}
              ELSE {})
        \cup (IF ds[k].type = Pto /\ ds[k].array
                 /\ RawLen(GetField(rec, ds[k].name)) > 0
              THEN {SetField(rec, ds[k].name,
                             Arr(<<GetField(rec, ds[k].name).arr[1], x>>)) :
                       x \in Spoiled(ds[k].pto,
                                     GetField(rec, ds[k].name).arr[1])}
              ELSE {})
        : k \in DOMAIN ds}

\* The example records of P1, P2 and P3.
Examples(name) ==
    CASE name = "P2" -> {Rec([xs |-> Arr(<<N(0), N(1), N(-1), N(256)>>)])}
      [] name = "P3" -> {Rec([inner |-> Arr(<<Rec([x |-> N(1), y |-> N(2)]),
                                             Rec([x |-> N(3), y |-> N(4)])>>)])}
      [] OTHER -> {}

\* The records Encode is given for a protocol.
EncodeInputs(p) ==
    Records(p.ds)
    \cup UNION {Spoiled(p.ds, Rec(h)) : h \in RecordsFrom(p.ds, 1, 0, "one")}
    \cup Examples(p.name)

\* The buffers Decode is given, whatever the protocol: every sequence of up
\* to MaxBuf bytes of a few values, and varints whose tag announces 8, 9
\* or 12 payload bytes (bytes 9 to 12 of the payload are the int v).
Bytes == {0, 1, 2, 255}

Overlong(pre, len, v, suf) ==
    pre \o <<2 * len + 1>>
        \o [k \in 1..len |-> IF k = 1 THEN 7
                              ELSE IF k \in 9..12 THEN v[k - 8] ELSE 0]
        \o suf

DecodeInputs ==
    {Str(b) : b \in SeqsUpTo(Bytes, MaxBuf)}
    \cup {Str(Overlong(pre, len, v, suf)) :
             pre \in {<<1, 0>>, <<1, 0, 0>>}, len \in {8, 9, 12},
             v \in {<<15, 0, 0, 0>>, <<16, 0, 0, 0>>, <<100, 0, 0, 0>>,
                    <<255, 255, 255, 255>>},
             suf \in {<<>>, <<0>>}}
    \cup {Nil, [t |-> "lightuserdata", s |-> <<1, 0>>, n |-> 2]}

-----------------------------------------------------------------------------
(* The codec: one context, one protocol imported into it at id 1, every    *)
(* record and buffer of the inputs above encoded and decoded.              *)

CodecImport ==
    \E k \in DOMAIN Protocols :
        /\ brk = 1
        /\ Import(1, Protocols[k].name, Schema(Protocols[k].ds))

CodecEncode ==
    /\ 1 \in DOMAIN ptos_
    /\ \E id \in {1, 2} : \E rec \in EncodeInputs(Described(ptos_[1])) :
           Encode(id, rec)

\* Decode of what Encode returned, as it is, without its last byte, or with
\* bytes appended; or of any buffer.
WireInputs ==
    IF enc.pc = "done" /\ enc.ok
    THEN {[id |-> enc.id, arg |-> Str(enc.out),
           src |-> Source("wire", enc.rec, enc.out)]}
         \cup {[id |-> enc.id, arg |-> Str(SubSeq(enc.out, 1, Len(enc.out) - 1)),
                src |-> Source("cut", enc.rec, enc.out)] :
                   k \in {1} \cap DOMAIN enc.out}
         \cup {[id |-> enc.id, arg |-> Str(enc.out \o tail),
                src |-> Source("more", enc.rec, enc.out)] :
                   tail \in {<<0>>, <<1, 2>>}}
    ELSE {}

AnyInputs ==
    IF enc.pc = "idle" /\ 1 \in DOMAIN ptos_
    THEN {[id |-> id, arg |-> arg, src |-> Source("any", Nil, <<>>)] :
             id \in {1, 2}, arg \in DecodeInputs}
    ELSE {}

CodecDecode ==
    \E in \in WireInputs \cup AnyInputs : Decode(in.id, in.arg, in.src)

CodecNext ==
    \/ CodecImport
    \/ ImportStep
    \/ CodecEncode
    \/ EncodeStep
    \/ CodecDecode
    \/ DecodeStep
    \/ Return

SpecCodec == Init /\ [][CodecNext]_vars

-----------------------------------------------------------------------------
(* SpecDepth: protocols whose Message fields are nested 127, 128 and 129   *)
(* levels deep, one inside the other, as single Messages or as sequences   *)
(* of Messages; the innermost Message has the Bool field z.                *)

ChainDepths == {127, 128, 129}

\* The description of a Message field m around the schema sub, and the
\* record with the Message (or a sequence of one Message) rec as m.
Around(sub, array) ==
    LTable(<<LTable(<<>>, [type |-> LInt(I64(Pto)), array |-> LBool(array),
                           name |-> LStr("m"), pto |-> sub])>>, <<>>)

Holding(rec, array) == Rec([m |-> IF array THEN Arr(<<rec>>) ELSE rec])

\* n levels around the innermost schema or record acc, built from the
\* inside out.
RECURSIVE ChainFrom(_, _, _), PopulatedFrom(_, _, _)
ChainFrom(n, array, acc) ==
    IF n = 0 \/ acc.t # "table" THEN acc
    ELSE ChainFrom(n - 1, array, Around(acc, array))

PopulatedFrom(n, array, acc) ==
    IF n = 0 \/ acc.t # "table" THEN acc
    ELSE PopulatedFrom(n - 1, array, Holding(acc, array))

Chain(n, array) == ChainFrom(n, array, Schema(<<D("z", Bool, FALSE)>>))

\* The record with one Message at each of the n levels
Populated(n, array) == PopulatedFrom(n, array, Rec([z |-> LBool(TRUE)]))

\* k counts of 1, the bytes that lead k levels down a chain of sequences
Ones(k) == [i \in 1..(2 * k) |-> i % 2]

\* How many levels of Messages the walk of the last Import went down
Nesting == imp.levels - 1

DepthImport ==
    \E n \in ChainDepths, array \in BOOLEAN :
        /\ brk = 1
        /\ Import(1, "C", Chain(n, array))

DepthEncode ==
    /\ 1 \in DOMAIN ptos_
    /\ Encode(1, Populated(Nesting,
                           ptos_[1].fields_[1].array_))

DepthBuffers ==
    IF ptos_[1].fields_[1].array_
    THEN {<<>>, <<0, 0>>, Ones(MAX_DEPTH - 1) \o <<1>>}
    ELSE {<<>>, <<1>>}

DepthDecode ==
    /\ 1 \in DOMAIN ptos_
    /\ \E buf \in DepthBuffers : Decode(1, Str(buf), Source("any", Nil, <<>>))

DepthNext ==
    \/ DepthImport
    \/ ImportStep
    \/ DepthEncode
    \/ EncodeStep
    \/ DepthDecode
    \/ DecodeStep
    \/ Return

SpecDepth == Init /\ [][DepthNext]_vars

\* The bytes lead Decode to the Message at level MAX_DEPTH of the chain:
\* nothing stops it in a chain of single Messages, and in a chain of
\* sequences the counts it reads on the way are not 0.
Reaches(buf) ==
    ptos_[1].fields_[1].array_ =>
        /\ Len(buf) >= 2 * 127
        /\ \A j \in 1..127 : buf[2 * j - 1] + buf[2 * j] > 0

\* C6 as stated: a nested Message is encoded or decoded only while its
\* depth is at most 128, and for a protocol whose Messages are nested more
\* than 128 levels deep Encode of a record populated along the chain and
\* Decode both fail with TooDepth.
C6_Stated ==
    /\ enc.e.deep <= 128 /\ dec.d.deep <= 128
    /\ (enc.pc = "done" /\ Nesting > 128)
          => ~enc.ok /\ enc.err = TooDepth(TRUE)
    /\ (dec.pc = "done" /\ Nesting > 128)
          => ~dec.ok /\ dec.err = TooDepth(FALSE)

\* C6: a nested Message is encoded or decoded only while the depth counter
\* (1 at the top-level fields, one more per level of Message) is at most
\* 128.  With Messages nested 128 levels or more, Encode of a record
\* populated along the chain fails with "pto encode too depth", and Decode
\* fails with "pto decode too depth" if the input leads it to level 128,
\* and only then; with fewer levels neither fails so.
C6_Depth ==
    /\ enc.e.deep <= 128 /\ dec.d.deep <= 128
    /\ enc.pc = "done" =>
          IF Nesting >= 128
          THEN ~enc.ok /\ enc.err = TooDepth(TRUE)
          ELSE enc.ok
    /\ dec.pc = "done" =>
          IF Nesting >= 128 /\ Reaches(dec.buf)
          THEN ~dec.ok /\ dec.err = TooDepth(FALSE)
          ELSE dec.err.type # "TooDepth"

\* Decode of 127 counts of 1, for sequences of Messages nested 129 levels
\* deep, has failed at level 128.
C6_Witness ==
    /\ dec.pc = "done" /\ ~dec.ok /\ dec.err = TooDepth(FALSE)
    /\ Nesting = 129 /\ ptos_[1].fields_[1].array_
    /\ dec.buf = Ones(127) \o <<1>>
    /\ dec.d.deep = 128 /\ dec.d.offset_ = 2 * 127

\* C7: the walk of Import over the nested pto lists never descends more
\* than 128 levels, and a schema nested deeper is not registered.
C7_ImportBound ==
    /\ imp.levels - 1 <= 128
    /\ (imp.pc = "done" /\ imp.levels - 1 > 128) => imp.id \notin DOMAIN ptos_

-----------------------------------------------------------------------------
(* SpecRegistry: one context, up to MaxImports Imports at ids at the edges *)
(* of the table, then the finalizer.                                       *)

MaxImports == 3

\* 65537 is 1 as a uint16_t
RegistryIds == {1, 65534, 65535, 65537}

Imports == Cardinality({a \in DOMAIN heap : heap[a].kind = "Protocol"})

RegistryImport ==
    /\ Imports < MaxImports
    /\ \E id \in RegistryIds, k \in {2, 3} :
          Import(id, Protocols[k].name, Schema(Protocols[k].ds))

RegistryNext == RegistryImport \/ ImportStep \/ Release

SpecRegistry == Init /\ [][RegistryNext]_vars

\* C8: Import with id = 0xFFFF is rejected and registers nothing, and no
\* Import stores a protocol outside the 0xFFFF slots of the table.
C8_IdRange ==
    /\ past_ = 0
    /\ \A id \in DOMAIN ptos_ : id \in 0..(TableSize - 1)
    /\ (imp.pc = "done" /\ imp.id = 65535) =>
          imp.err # NoErr /\ imp.pto = NULL

\* C10: after any sequence of Imports and the release of the registry,
\* every Protocol that was registered and every Field it owns has been
\* freed exactly once.
C10_Teardown ==
    released => \A a \in DOMAIN heap : heap[a].deleted = 1

-----------------------------------------------------------------------------
(* SpecVarint: Encoder::Append(int64_t) and Decoder::Read() on the         *)
(* integers of [-(2^56-1), 2^56-1] at the edges of every length.           *)

\* Magnitudes of length k with top byte top and the bytes below it fill.
Magnitude(k, top, fill) ==
    Tup8([i \in 1..8 |-> IF i < k THEN fill ELSE IF i = k THEN top ELSE 0])

Magnitudes ==
    {Magnitude(k, top, fill) : k \in 1..7, top \in {1, 127, 128, 255},
                               fill \in {0, 255}}

VarintEncode ==
    /\ Ready /\ Quiet /\ vint.pc = "idle"
    /\ \E neg \in BOOLEAN, mag \in Magnitudes \cup {Zero64} :
          LET x == IF neg THEN Neg64(mag) ELSE mag
          IN  vint' = [VarintIdle EXCEPT !.pc = "encoded", !.neg = neg,
                          !.mag = mag, !.x = x,
                          !.bytes = AppendInt(NewEncoder, x).ptr_]
    /\ UNCHANGED <<ptos_, past_, heap, brk, released, crashed, imp, enc, dec>>

\* r is the decoder after Read()
VarintRead(r) ==
    [vint EXCEPT !.pc = "decoded", !.d = [r EXCEPT !.val = Nil],
                 !.back = IF r.err = NoErr THEN r.val ELSE Zero64]

VarintDecode ==
    /\ vint.pc = "encoded"
    /\ vint' = VarintRead(ReadVarint(NewDecoder(Len(vint.bytes)), vint.bytes))
    /\ UNCHANGED <<ptos_, past_, heap, brk, released, crashed, imp, enc, dec>>

VarintReturn ==
    /\ vint.pc = "decoded"
    /\ vint' = VarintIdle
    /\ UNCHANGED <<ptos_, past_, heap, brk, released, crashed, imp, enc, dec>>

VarintNext == VarintEncode \/ VarintDecode \/ VarintReturn

SpecVarint == Init /\ [][VarintNext]_vars

\* The least len in 1..7 with |x| < 2^(8 len)
MinLen(mag) == CHOOSE len \in 1..7 :
                  /\ \A i \in (len + 1)..8 : mag[i] = 0
                  /\ \A l \in 1..(len - 1) : \E i \in (l + 1)..8 : mag[i] # 0

\* C3: for every integer x of [-(2^56-1), 2^56-1] the Int encoder emits the
\* single byte 00 when x = 0, and otherwise the tag (len << 1) | sign (sign
\* 1 for positive, 0 for negative) followed by the len low bytes of |x|,
\* least significant first, len the least of 1..7 with |x| < 2^(8 len); and
\* the Int decoder given those bytes consumes them all and returns x.
C3_Varint ==
    /\ vint.pc \in {"encoded", "decoded"} =>
          vint.bytes = IF vint.mag = Zero64 THEN <<0>>
                       ELSE <<2 * MinLen(vint.mag) + (IF vint.neg THEN 0 ELSE 1)>>
                            \o SubSeq(vint.mag, 1, MinLen(vint.mag))
    /\ vint.pc = "decoded" =>
          /\ vint.d.err = NoErr
          /\ vint.d.offset_ = Len(vint.bytes)
          /\ vint.back = vint.x
          /\ vint.d.smash = 0

\* -(2^56-1) has been encoded to 0E FF FF FF FF FF FF FF and decoded
C3_Witness ==
    /\ vint.pc = "decoded"
    /\ vint.neg /\ vint.mag = MAX_INT
    /\ vint.bytes = <<14, 255, 255, 255, 255, 255, 255, 255>>
    /\ vint.back = <<1, 0, 0, 0, 0, 0, 0, 255>>

-----------------------------------------------------------------------------
(* What the format asks of records and bytes, stated without the encoder:  *)
(* the records that satisfy a description, equality of records field by    *)
(* field, and the bytes of a record.                                       *)

\* |i| of an int64
Mag(i) == IF IsNeg64(i) THEN Neg64(i) ELSE i

\* An integer within 16 bits, within [-(2^56-1), 2^56-1]
InShort(x) ==
    /\ x.t = "number" /\ "i" \in DOMAIN x
    /\ \/ x.i[2] < 128 /\ \A i \in 3..8 : x.i[i] = 0
       \/ x.i[2] >= 128 /\ \A i \in 3..8 : x.i[i] = 255

InInt(x) == x.t = "number" /\ "i" \in DOMAIN x /\ Mag(x.i)[8] = 0

RECURSIVE ValidElem(_, _), ValidField(_, _), ValidRec(_, _)
ValidElem(d, x) ==
    CASE d.type = Bool -> x.t = "boolean"
      [] d.type = Short -> InShort(x)
      [] d.type = Int_ -> InInt(x)
      [] d.type \in {Float, Double} -> x.t = "number"
      [] d.type = String -> x.t = "string" /\ Len(x.s) <= 65535
      [] d.type = Pto -> ValidRec(d.pto, x)
      [] OTHER -> FALSE

ValidField(d, v) ==
    IF d.array
    THEN /\ v.t = "table" /\ Len(v.arr) <= 65535
         /\ \A k \in DOMAIN v.arr : ValidElem(d, v.arr[k])
    ELSE ValidElem(d, v)

ValidRec(ds, rec) ==
    /\ rec.t = "table"
    /\ \A k \in DOMAIN ds : ValidField(ds[k], GetField(rec, ds[k].name))

\* No field of type Float or Double at any level
RECURSIVE NoFloat(_)
NoFloat(ds) ==
    \A k \in DOMAIN ds :
        /\ ds[k].type \notin {Float, Double}
        /\ ds[k].type = Pto => NoFloat(ds[k].pto)

RECURSIVE SameElem(_, _, _), SameField(_, _, _), SameRec(_, _, _)
SameElem(d, x, y) == IF d.type = Pto THEN SameRec(d.pto, x, y) ELSE x = y

SameField(d, v, w) ==
    IF d.array
    THEN /\ w.t = "table" /\ Len(w.arr) = Len(v.arr)
         /\ \A k \in DOMAIN v.arr : SameElem(d, v.arr[k], w.arr[k])
    ELSE SameElem(d, v, w)

SameRec(ds, v, w) ==
    /\ w.t = "table"
    /\ \A k \in DOMAIN ds :
          SameField(ds[k], GetField(v, ds[k].name), GetField(w, ds[k].name))

\* The bytes of an Int
IntLayout(i) ==
    IF i = Zero64 THEN <<0>>
    ELSE <<2 * MinLen(Mag(i)) + (IF IsNeg64(i) THEN 0 ELSE 1)>>
         \o SubSeq(Mag(i), 1, MinLen(Mag(i)))

RECURSIVE Concat(_)
Concat(ss) == IF ss = <<>> THEN <<>> ELSE Head(ss) \o Concat(Tail(ss))

RECURSIVE ElemLayout(_, _), FieldLayout(_, _), RecLayout(_, _)
ElemLayout(d, x) ==
    CASE d.type = Bool -> <<IF x.b THEN 1 ELSE 0>>
      [] d.type = Short -> <<x.i[1], x.i[2]>>
      [] d.type = Int_ -> IntLayout(x.i)
      [] d.type = Float -> DoubleToFloat(ToNumber(x))
      [] d.type = Double -> ToNumber(x)
      [] d.type = String -> <<Len(x.s) % 256, Len(x.s) \div 256>> \o x.s
      [] d.type = Pto -> RecLayout(d.pto, x)

FieldLayout(d, v) ==
    IF d.array
    THEN <<Len(v.arr) % 256, Len(v.arr) \div 256>>
         \o Concat([k \in DOMAIN v.arr |-> ElemLayout(d, v.arr[k])])
    ELSE ElemLayout(d, v)

RecLayout(ds, rec) ==
    Concat([k \in DOMAIN ds |-> FieldLayout(ds[k], GetField(rec, ds[k].name))])

\* The description of the protocol registered at id 1
Registered == Described(ptos_[1]).ds

\* C1: for a registered protocol without Float and Double fields and a
\* record that satisfies its schema, Encode succeeds, and Decode of the
\* bytes Encode returned succeeds and returns a record equal to the given
\* one in every field, sequence length and nested record.
C1_RoundTrip ==
    /\ (enc.pc = "done" /\ NoFloat(Registered) /\ ValidRec(Registered, enc.rec))
          => enc.ok
    /\ (dec.pc = "done" /\ dec.src.kind = "wire" /\ NoFloat(Registered)
          /\ ValidRec(Registered, dec.src.rec))
          => dec.ok /\ SameRec(Registered, dec.src.rec, dec.val)

\* A record of P5, with a nested record two levels down, a negative integer
\* and a sequence of shorts, has come back from its encoding.
C1_Witness ==
    /\ dec.pc = "done" /\ dec.src.kind = "wire" /\ dec.ok
    /\ ptos_[1].name_ = "P5"
    /\ dec.src.rec = Rec([m |-> Rec([k |-> N(-1), n |-> Rec([z |-> LBool(TRUE)])]),
                          t |-> Arr(<<N(1), N(-2)>>)])
    /\ dec.val = dec.src.rec

\* C2: for a registered protocol and a record that satisfies its schema,
\* the bytes Encode returns are the concatenation, in field order, of each
\* field's encoding: one element layout for a non-array field, a u16
\* little-endian count and then the element layouts for an array field, the
\* child fields in child order for a Message element; no tag, id or length
\* around them.
C2_Layout ==
    (enc.pc = "done" /\ ValidRec(Registered, enc.rec))
        => enc.ok /\ enc.out = RecLayout(Registered, enc.rec)

\* inner = [{x=1,y=2},{x=3,y=4}] of P3 has encoded to
\* 02 00 01 00 02 00 03 00 04 00
C2_Witness ==
    /\ enc.pc = "done" /\ enc.ok
    /\ ptos_[1].name_ = "P3"
    /\ enc.rec = Rec([inner |-> Arr(<<Rec([x |-> N(1), y |-> N(2)]),
                                      Rec([x |-> N(3), y |-> N(4)])>>)])
    /\ enc.out = <<2, 0, 1, 0, 2, 0, 3, 0, 4, 0>>

NotASequence(k) ==
    /\ enc.pc = "done" /\ enc.rec.t = "table"
    /\ Registered[k].array
    /\ TypeName(GetField(enc.rec, Registered[k].name)) # "table"
    /\ \A j \in 1..(k - 1) :
          ValidField(Registered[j], GetField(enc.rec, Registered[j].name))

\* C9 as stated: for an array field of any of the seven types, Encode of a
\* record whose value for the field is not a sequence fails with
\* BadArrayType, "field:<name> expect table, not <kind>", and returns no
\* bytes.
C9_Stated ==
    enc.pc = "done" =>
        \A k \in DOMAIN Registered :
            NotASequence(k) =>
                /\ ~enc.ok /\ enc.out = <<>>
                /\ enc.err =
                     [type |-> "BadArrayType",
                      reason |-> "field:" \o Registered[k].name
                                 \o " expect table, not "
                                 \o TypeName(GetField(enc.rec, Registered[k].name))]

\* C9: for an array field within the depth limit, Encode of a record whose
\* value for the field is not a sequence fails and returns no bytes; the
\* error text is "field:<name> expect table,not <kind>" (no space after the
\* comma), thrown as BadArrayType for Bool, Short, Int, Float, Double and
\* String and as BadField for Message.
C9_ArrayType ==
    enc.pc = "done" =>
        \A k \in DOMAIN Registered :
            NotASequence(k) =>
                /\ ~enc.ok /\ enc.out = <<>>
                /\ enc.err.type = IF Registered[k].type = Pto THEN "BadField"
                                  ELSE "BadArrayType"
                /\ enc.err.reason =
                     "field:" \o Registered[k].name \o " expect table,not "
                         \o TypeName(GetField(enc.rec, Registered[k].name))

\* P3's inner, a sequence of Messages, was given a number
C9_Witness ==
    /\ enc.pc = "done" /\ ~enc.ok
    /\ ptos_[1].name_ = "P3"
    /\ enc.rec = Rec([inner |-> N(7)])
    /\ enc.err = [type |-> "BadField",
                  reason |-> "field:inner expect table,not number"]


-----------------------------------------------------------------------------
(* SpecRead: Decoder::Read(), the varint, on its own and on any bytes: a   *)
(* tag byte, then a payload of the length it announces, of one byte less   *)
(* or of more, filled with one byte value.                                 *)

\* Tags announcing 0, 1, 7, 8, 9, 12 and 127 payload bytes, of both signs.
Tags == {0, 1, 2, 3, 14, 15, 16, 17, 18, 19, 24, 25, 254, 255}

Fills == {0, 1, 255}

Tagged(tag, n, fill) == <<tag>> \o [k \in 1..n |-> fill]

\* The payload lengths tried for a tag
Lengths(tag) == {(tag \div 2) - 1, tag \div 2, (tag \div 2) + 4} \cap Nat

ReadInputs ==
    UNION {{Tagged(tag, n, fill) : n \in Lengths(tag), fill \in Fills} :
              tag \in Tags}

ReadFeed ==
    /\ Ready /\ Quiet /\ vint.pc = "idle"
    /\ \E bytes \in ReadInputs :
          vint' = [VarintIdle EXCEPT !.pc = "encoded", !.bytes = bytes]
    /\ UNCHANGED <<ptos_, past_, heap, brk, released, crashed, imp, enc, dec>>

\* int64_t val = Read() of a Decoder over the bytes.  Bytes written past
\* the accumulator land on dead stack or on size_, or abort the process.
ReadCall ==
    /\ vint.pc = "encoded" /\ ~crashed
    /\ LET Take(ub) ==
               ReadVarint([NewDecoder(Len(vint.bytes)) EXCEPT !.ub = ub],
                          vint.bytes)
           outcomes == IF Take("intact").smash > 0
                       THEN {Take(ub) : ub \in Ubs}
                       ELSE {Take("intact")}
       IN  \E r \in outcomes :
              /\ vint' = VarintRead([r EXCEPT !.ub = "intact"])
              /\ crashed' \in IF r.smash > 0 THEN {FALSE, TRUE} ELSE {FALSE}
    /\ UNCHANGED <<ptos_, past_, heap, brk, released, imp, enc, dec>>

ReadReturn ==
    /\ vint.pc = "decoded" /\ ~crashed
    /\ vint' = VarintIdle
    /\ UNCHANGED <<ptos_, past_, heap, brk, released, crashed, imp, enc, dec>>

ReadNext == ReadFeed \/ ReadCall \/ ReadReturn

SpecRead == Init /\ [][ReadNext]_vars

\* C11: each Int read by the decoder consumes between 1 and 8 bytes: the
\* payload length tag >> 1 is at most 7 whenever payload bytes are copied
\* into the 8-byte accumulator, a tag that announces a longer payload is
\* rejected and nothing is copied for it, and every Int read lies in
\* [-(2^56-1), 2^56-1].
C11_VarintSize ==
    vint.pc = "decoded" =>
        /\ ~crashed /\ vint.d.smash = 0
        /\ \A k \in DOMAIN vint.d.log : k > 1 => vint.d.log[k].n <= 7
        /\ vint.bytes[1] \div 2 > 7 =>
              vint.d.err = BadDecode /\ Len(vint.d.log) = 1
        /\ vint.d.err = NoErr =>
              /\ vint.d.offset_ \in 1..8
              /\ ULe(Mag(vint.back), MAX_INT)

=============================================================================
